---- MODULE Spec2Model ----
(***************************************************************************)
(* The two "Moola Settings" form scripts:                                  *)
(*   src/unnamed/part_000                      -- "Sync From Date" button  *)
(*   src/moola_integration/public/js/moola_settings.js -- "Sync Now"       *)
(* Both register a refresh handler on the same doctype, so one form        *)
(* carries both buttons.  The host framework (form refresh, modal prompt,  *)
(* frappe.call with freeze, msgprint, reload_doc) is the environment: it   *)
(* is modelled only as far as the scripts call into it.                    *)
(***************************************************************************)
EXTENDS Integers, Sequences, FiniteSets, TLC

VARIABLES doc, dirty, buttons, prompt, inflight, values, last,
          clicksA, clicksB, confirms, sentA, sentB, msgprints, reloads

vars == <<doc, dirty, buttons, prompt, inflight, values, last,
          clicksA, clicksB, confirms, sentA, sentB, msgprints, reloads>>

(* ---------------------------- bounds ----------------------------------- *)
MaxClicks == 2      \* button clicks in one behaviour
MaxCount == 1       \* each counter of a result payload ranges over 0..MaxCount

(* ------------------------- JavaScript values --------------------------- *)
\* A scalar is [t, v]: t the typeof tag, v an integer.  For a date string v
\* is the day the string denotes.
Undefined == [t |-> "undefined", v |-> 0]
Num(n) == [t |-> "number", v |-> n]
Bool(b) == [t |-> "boolean", v |-> IF b THEN 1 ELSE 0]
DateStr(d) == [t |-> "string", v |-> d]

\* ToBoolean on a scalar, as the conditional operator applies it
Truthy(x) ==
  CASE x.t = "undefined" -> FALSE
    [] x.t = "number" -> x.v # 0
    [] x.t = "boolean" -> x.v = 1
    [] OTHER -> TRUE

\* A response message r.message: undefined, null, a string or a result object
NoMessage == [t |-> "undefined", s |-> "", fetched |-> 0, created |-> 0, skipped |-> 0, errors |-> 0]
NullMessage == [NoMessage EXCEPT !.t = "null"]
Text(s) == [NoMessage EXCEPT !.t = "string", !.s = s]
Payload(f, c, s, e) ==
  [t |-> "object", s |-> "", fetched |-> f, created |-> c, skipped |-> s, errors |-> e]

\* ToBoolean on a response message
TruthyMessage(m) ==
  CASE m.t = "object" -> TRUE
    [] m.t = "string" -> m.s # ""
    [] OTHER -> FALSE

(* ------------------------------ inputs --------------------------------- *)
Today == 20
add_days(d, n) == d + n
Dates == {add_days(Today, -7), Today}
CheckValues == {Num(0), Num(1), Undefined, Bool(TRUE), Bool(FALSE)}
Counts == 0..MaxCount
Payloads == {Payload(f, c, s, e) : f \in Counts, c \in Counts, s \in Counts, e \in Counts}
FromDateResponses == Payloads \cup {NoMessage, NullMessage}
SyncNowResponses == {NoMessage, NullMessage, Text(""), Text("All good"), Text("Queued")}

SyncFromDateLabel == "Sync From Date"
SyncNowLabel == "Sync Now"
SyncFromDateMethod == "moola_integration.api.sync_from_date"
SyncNowMethod == "moola_integration.api.sync_now"

(* ------------------------- message formatting -------------------------- *)
\* A text is a sequence of tokens; "{i}" tokens are placeholders.
Placeholder(i) == "{" \o ToString(i) \o "}"

\* __(txt, args): substitute args[i+1] for every "{i}"
translate(txt, args) ==
  [k \in 1..Len(txt) |->
     IF \E i \in 1..Len(args) : txt[k] = Placeholder(i - 1)
     THEN ToString(args[CHOOSE i \in 1..Len(args) : txt[k] = Placeholder(i - 1)])
     ELSE txt[k]]

SummaryTemplate ==
  <<"Sync complete.<br>Fetched: ", "{0}", "<br>Created JE: ", "{1}",
    "<br>Skipped: ", "{2}", "<br>Errors: ", "{3}">>

FreezeTemplate == <<"Syncing from ", "{0}", "...">>

(* ------------------------------ effects -------------------------------- *)
msgprint(text) == [e |-> "msgprint", text |-> text]
reload_doc == [e |-> "reload_doc", text |-> <<>>]

(* ------------------------ the refresh handlers ------------------------- *)
is_new(d) == d.is_new

\* variant: the button also waits for the "enabled" attribute
refresh_sync_from_date_gated(d, btns) ==
  IF ~is_new(d) /\ Truthy(d.enabled) THEN btns \cup {SyncFromDateLabel} ELSE btns

refresh_sync_from_date(d, btns) ==
  IF ~is_new(d) THEN btns \cup {SyncFromDateLabel} ELSE btns

\* variant: the "enabled" test is dropped
refresh_sync_now_ungated(d, btns) ==
  IF ~is_new(d) THEN btns \cup {SyncNowLabel} ELSE btns

refresh_sync_now(d, btns) ==
  IF ~is_new(d) /\ Truthy(d.enabled) THEN btns \cup {SyncNowLabel} ELSE btns

\* A form refresh drops the custom buttons and runs both refresh handlers
Refresh(d) == refresh_sync_now(d, refresh_sync_from_date(d, {}))

(* --------------------------- the remote calls -------------------------- *)
NoArgs == [k \in {} |-> Undefined]

\* variant: the call is sent without the freeze option
sync_now_call_unfrozen ==
  [method |-> SyncNowMethod, args |-> NoArgs, freeze |-> FALSE, freeze_message |-> <<>>]

sync_now_call ==
  [method |-> SyncNowMethod, args |-> NoArgs, freeze |-> TRUE, freeze_message |-> <<>>]

\* variant: the flag is passed through without the "? 1 : 0" coercion
sync_from_date_call_raw(vals) ==
  [method |-> SyncFromDateMethod,
   args |-> [from_date |-> vals.from_date, advance_cursor |-> vals.advance_cursor],
   freeze |-> TRUE,
   freeze_message |-> translate(FreezeTemplate, <<vals.from_date.v>>)]

sync_from_date_call(vals) ==
  [method |-> SyncFromDateMethod,
   args |-> [from_date |-> vals.from_date,
             advance_cursor |-> IF Truthy(vals.advance_cursor) THEN Num(1) ELSE Num(0)],
   freeze |-> TRUE,
   freeze_message |-> translate(FreezeTemplate, <<vals.from_date.v>>)]

\* variant: no "Done" fallback
sync_now_callback_raw(message) == << msgprint(<<message.s>>) >>

\* variant: the view is reloaded after the message
sync_now_callback_reload(message) ==
  << msgprint(<<(IF TruthyMessage(message) THEN message ELSE Text("Done")).s>>), reload_doc >>

\* callback: (r) => frappe.msgprint(r.message || "Done")
sync_now_callback(message) ==
  << msgprint(<<(IF TruthyMessage(message) THEN message ELSE Text("Done")).s>>) >>

\* variant: created and skipped change places in the argument list
sync_from_date_callback_swapped(message) ==
  IF TruthyMessage(message)
  THEN << msgprint(translate(SummaryTemplate,
                   <<message.fetched, message.skipped, message.created, message.errors>>)),
          reload_doc >>
  ELSE << >>

\* variant: the "if (r.message)" test is dropped
sync_from_date_callback_unguarded(message) ==
  << msgprint(translate(SummaryTemplate,
              <<message.fetched, message.created, message.skipped, message.errors>>)),
     reload_doc >>

\* callback of sync_from_date
sync_from_date_callback(message) ==
  IF TruthyMessage(message)
  THEN << msgprint(translate(SummaryTemplate,
                   <<message.fetched, message.created, message.skipped, message.errors>>)),
          reload_doc >>
  ELSE << >>

callback(req, message) ==
  IF req.method = SyncNowMethod THEN sync_now_callback(message)
  ELSE sync_from_date_callback(message)

\* variant: the handler is registered so that it also runs on failure
error_callback_always(req) == callback(req, NoMessage)

\* neither call passes an error handler
error_callback(req) == << >>

Responses(req) ==
  IF req.method = SyncNowMethod THEN SyncNowResponses ELSE FromDateResponses

(* ----------------------------- framework ------------------------------- *)
Frozen == \E i \in 1..Len(inflight) : inflight[i].freeze

Interactive == ~Frozen /\ ~prompt.open

Remove(s, i) == [k \in 1..(Len(s) - 1) |-> IF k < i THEN s[k] ELSE s[k + 1]]

Count(effs, kind) == Cardinality({k \in 1..Len(effs) : effs[k].e = kind})

ClosedPrompt == [open |-> FALSE, from_date |-> DateStr(0), advance_cursor |-> Undefined]

PromptDefaults ==
  [open |-> TRUE, from_date |-> DateStr(add_days(Today, -7)), advance_cursor |-> Num(0)]

NoValues == [from_date |-> DateStr(0), advance_cursor |-> Undefined]

\* what the latest completed call did; a new click starts afresh
NoCall == [method |-> "", outcome |-> "none", message |-> NoMessage, effects |-> << >>]

Init ==
  /\ doc \in [is_new : BOOLEAN, enabled : {Num(0), Num(1)}]
  /\ dirty = FALSE
  /\ buttons = Refresh(doc)
  /\ prompt = ClosedPrompt
  /\ inflight = << >>
  /\ values = NoValues
  /\ last = NoCall
  /\ clicksA = 0 /\ clicksB = 0 /\ confirms = 0
  /\ sentA = 0 /\ sentB = 0 /\ msgprints = 0 /\ reloads = 0

\* the user toggles the "enabled" check of the settings record
EditEnabled ==
  /\ Interactive
  /\ doc' = [doc EXCEPT !.enabled = Num(1 - doc.enabled.v)]
  /\ dirty' = TRUE
  /\ UNCHANGED <<buttons, prompt, inflight, values, last,
                 clicksA, clicksB, confirms, sentA, sentB, msgprints, reloads>>

\* the user saves the record; the form refreshes
Save ==
  /\ Interactive
  /\ is_new(doc) \/ dirty
  /\ doc' = [doc EXCEPT !.is_new = FALSE]
  /\ dirty' = FALSE
  /\ buttons' = Refresh(doc')
  /\ UNCHANGED <<prompt, inflight, values, last,
                 clicksA, clicksB, confirms, sentA, sentB, msgprints, reloads>>

\* variant: the click sends the call with the defaults, without a prompt
ClickSyncFromDate_direct ==
  /\ Interactive
  /\ SyncFromDateLabel \in buttons
  /\ clicksA + clicksB < MaxClicks
  /\ clicksA' = clicksA + 1
  /\ values' = [from_date |-> PromptDefaults.from_date,
                advance_cursor |-> PromptDefaults.advance_cursor]
  /\ inflight' = Append(inflight, sync_from_date_call(values'))
  /\ sentA' = sentA + 1
  /\ last' = NoCall
  /\ UNCHANGED <<doc, dirty, buttons, prompt,
                 clicksB, confirms, sentB, msgprints, reloads>>

\* click on "Sync From Date": frappe.prompt opens with the field defaults
ClickSyncFromDate ==
  /\ Interactive
  /\ SyncFromDateLabel \in buttons
  /\ clicksA + clicksB < MaxClicks
  /\ clicksA' = clicksA + 1
  /\ prompt' = PromptDefaults
  /\ last' = NoCall
  /\ UNCHANGED <<doc, dirty, buttons, inflight, values,
                 clicksB, confirms, sentA, sentB, msgprints, reloads>>

\* the user edits the fields of the open prompt
EditPrompt ==
  /\ prompt.open
  /\ \E d \in Dates, c \in CheckValues :
       /\ prompt' = [prompt EXCEPT !.from_date = DateStr(d), !.advance_cursor = c]
       /\ prompt' # prompt
  /\ UNCHANGED <<doc, dirty, buttons, inflight, values, last,
                 clicksA, clicksB, confirms, sentA, sentB, msgprints, reloads>>

\* the user dismisses the prompt
CancelPrompt ==
  /\ prompt.open
  /\ prompt' = ClosedPrompt
  /\ UNCHANGED <<doc, dirty, buttons, inflight, values, last,
                 clicksA, clicksB, confirms, sentA, sentB, msgprints, reloads>>

\* the user presses "Run": the prompt closes and its callback sends the call
ConfirmPrompt ==
  /\ prompt.open
  /\ ~Frozen
  /\ values' = [from_date |-> prompt.from_date, advance_cursor |-> prompt.advance_cursor]
  /\ prompt' = ClosedPrompt
  /\ confirms' = confirms + 1
  /\ inflight' = Append(inflight, sync_from_date_call(values'))
  /\ sentA' = sentA + 1
  /\ UNCHANGED <<doc, dirty, buttons, last, clicksA, clicksB, sentB, msgprints, reloads>>

\* click on "Sync Now": the call is sent at once
ClickSyncNow ==
  /\ Interactive
  /\ SyncNowLabel \in buttons
  /\ clicksA + clicksB < MaxClicks
  /\ clicksB' = clicksB + 1
  /\ inflight' = Append(inflight, sync_now_call)
  /\ sentB' = sentB + 1
  /\ last' = NoCall
  /\ UNCHANGED <<doc, dirty, buttons, prompt, values,
                 clicksA, confirms, sentA, msgprints, reloads>>

\* the framework runs the effects a handler produced
Apply(effs) ==
  /\ msgprints' = msgprints + Count(effs, "msgprint")
  /\ reloads' = reloads + Count(effs, "reload_doc")
  /\ IF Count(effs, "reload_doc") > 0
     THEN \E en \in {Num(0), Num(1)} :
            /\ doc' = [is_new |-> FALSE, enabled |-> en]
            /\ dirty' = FALSE
            /\ buttons' = Refresh(doc')
     ELSE UNCHANGED <<doc, dirty, buttons>>

\* a call succeeds: the interface unfreezes and the callback runs; the
\* prompt values its closure held are gone with it
Respond ==
  \E i \in 1..Len(inflight) : \E m \in Responses(inflight[i]) :
    /\ inflight' = Remove(inflight, i)
    /\ last' = [method |-> inflight[i].method, outcome |-> "ok", message |-> m,
                effects |-> callback(inflight[i], m)]
    /\ Apply(last'.effects)
    /\ values' = IF inflight[i].method = SyncFromDateMethod THEN NoValues ELSE values
    /\ UNCHANGED <<prompt, clicksA, clicksB, confirms, sentA, sentB>>

\* a call fails: the interface unfreezes, the success callback never runs
Fail ==
  \E i \in 1..Len(inflight) :
    /\ inflight' = Remove(inflight, i)
    /\ last' = [method |-> inflight[i].method, outcome |-> "error", message |-> NoMessage,
                effects |-> error_callback(inflight[i])]
    /\ Apply(last'.effects)
    /\ values' = IF inflight[i].method = SyncFromDateMethod THEN NoValues ELSE values
    /\ UNCHANGED <<prompt, clicksA, clicksB, confirms, sentA, sentB>>

Next ==
  \/ EditEnabled
  \/ Save
  \/ ClickSyncFromDate
  \/ EditPrompt
  \/ CancelPrompt
  \/ ConfirmPrompt
  \/ ClickSyncNow
  \/ Respond
  \/ Fail

Spec == Init /\ [][Next]_vars

(* ============================ properties =============================== *)
\* this step completes a call of the given method with the given outcome
Completes(method, outcome) ==
  /\ Len(inflight') < Len(inflight)
  /\ last'.method = method
  /\ last'.outcome = outcome

IsNumeral(tok) == \E n \in Counts : tok = ToString(n)

\* C1: after a refresh (no edit since), the "Sync From Date" button is present
\* exactly when the record is not new, whatever "enabled" is.
C1_SyncFromDateButton ==
  ~dirty => ((SyncFromDateLabel \in buttons) <=> ~doc.is_new)

C1_Witness ==
  /\ reloads > 0 /\ ~dirty /\ ~doc.is_new /\ doc.enabled = Num(0)
  /\ buttons = {SyncFromDateLabel}

\* C2: after a refresh (no edit since), the "Sync Now" button is present
\* exactly when the record is not new and "enabled" is truthy.
C2_SyncNowButton ==
  ~dirty => ((SyncNowLabel \in buttons) <=> (~doc.is_new /\ doc.enabled.v = 1))

C2_Witness ==
  /\ reloads > 0 /\ ~dirty /\ ~doc.is_new /\ doc.enabled = Num(1)
  /\ SyncNowLabel \in buttons

\* C3: a sync_from_date request carries exactly from_date and advance_cursor;
\* from_date is the confirmed date, advance_cursor is the number 1 for a
\* checked flag and the number 0 otherwise, never a boolean.
C3_RequestArgs ==
  \A i \in 1..Len(inflight) :
    inflight[i].method = SyncFromDateMethod =>
      /\ DOMAIN inflight[i].args = {"from_date", "advance_cursor"}
      /\ inflight[i].args.from_date = values.from_date
      /\ inflight[i].args.advance_cursor.t = "number"
      /\ inflight[i].args.advance_cursor.v =
           (IF values.advance_cursor \in {Num(1), Bool(TRUE)} THEN 1 ELSE 0)

C3_Witness ==
  /\ Len(inflight) = 1
  /\ inflight[1].method = SyncFromDateMethod
  /\ values.advance_cursor = Bool(TRUE)
  /\ values.from_date = DateStr(Today)
  /\ inflight[1].args.advance_cursor = Num(1)

\* C4: a sync_from_date response with a payload shows one summary message
\* whose numbers are fetched, created, skipped, errors in that order, and
\* then reloads the document once.
C4_SummaryThenReload ==
  [][ (Completes(SyncFromDateMethod, "ok") /\ last'.message.t = "object") =>
        /\ Len(last'.effects) = 2
        /\ last'.effects[1].e = "msgprint"
        /\ SelectSeq(last'.effects[1].text, IsNumeral) =
             << ToString(last'.message.fetched), ToString(last'.message.created),
                ToString(last'.message.skipped), ToString(last'.message.errors) >>
        /\ last'.effects[2].e = "reload_doc"
        /\ msgprints' = msgprints + 1
        /\ reloads' = reloads + 1 ]_vars

C4_Witness ==
  /\ last.method = SyncFromDateMethod /\ last.outcome = "ok"
  /\ last.message = Payload(1, 0, 1, 0)
  /\ msgprints = 1 /\ reloads = 1

C6_OneInFlight ==
  [][ /\ Len(inflight') <= 1
      /\ \A i \in 1..Len(inflight') : inflight'[i].freeze
      /\ (Frozen => clicksA' = clicksA /\ clicksB' = clicksB /\ confirms' = confirms) ]_vars

C6_Witness ==
  /\ Len(inflight) = 1 /\ Frozen
  /\ sentA = 1 /\ sentB = 1

\* C7: a sync_from_date request is sent only by confirming the prompt a click
\* opened, one click gives at most one request, a cancelled prompt sends
\* nothing; a click on "Sync Now" sends its request at once, with no prompt.
C7_Lifecycle ==
  [][ /\ (sentA' # sentA =>
            /\ prompt.open /\ ~prompt'.open
            /\ sentA' = sentA + 1 /\ confirms' = confirms + 1
            /\ Len(inflight') = Len(inflight) + 1)
      /\ (clicksA' # clicksA =>
            /\ ~prompt.open /\ prompt'.open
            /\ inflight' = inflight /\ sentA' = sentA)
      /\ (prompt.open /\ ~prompt'.open /\ confirms' = confirms =>
            inflight' = inflight /\ sentA' = sentA)
      /\ (clicksB' # clicksB =>
            /\ ~prompt.open /\ ~prompt'.open
            /\ sentB' = sentB + 1
            /\ Len(inflight') = Len(inflight) + 1
            /\ inflight'[Len(inflight')].method = SyncNowMethod)
      /\ sentA' <= clicksA'
      /\ sentB' = clicksB' ]_vars

C7_Witness ==
  /\ clicksA = 2 /\ confirms = 1 /\ sentA = 1
  /\ ~prompt.open /\ inflight = << >>

\* C8: a failed call shows no message, reloads nothing and is not retried;
\* requests never outnumber the user's triggering actions.
C8_FailureIsSilent ==
  [][ /\ (Len(inflight') < Len(inflight) /\ last'.outcome = "error" =>
            /\ last'.effects = << >>
            /\ msgprints' = msgprints /\ reloads' = reloads
            /\ sentA' = sentA /\ sentB' = sentB
            /\ doc' = doc /\ dirty' = dirty /\ buttons' = buttons
            /\ ~Frozen')
      /\ sentA' + sentB' <= confirms' + clicksB' ]_vars

C8_Witness ==
  /\ last.outcome = "error" /\ inflight = << >>
  /\ sentA + sentB = 2 /\ msgprints = 0 /\ reloads = 0

\* C9: a sync_from_date response without a payload shows nothing and reloads
\* nothing, while a sync_now response always shows a message.
C9_EmptyResponse ==
  [][ /\ (Completes(SyncFromDateMethod, "ok") /\ last'.message.t # "object" =>
            /\ last'.effects = << >>
            /\ msgprints' = msgprints /\ reloads' = reloads
            /\ doc' = doc /\ dirty' = dirty /\ buttons' = buttons)
      /\ (Completes(SyncNowMethod, "ok") => msgprints' = msgprints + 1) ]_vars

C9_Witness ==
  /\ last.method = SyncFromDateMethod /\ last.outcome = "ok"
  /\ last.message = NoMessage
  /\ sentA = 1 /\ msgprints = 0 /\ reloads = 0 /\ inflight = << >>

\* C10: completing a sync_now call neither reloads the document nor rebuilds
\* the buttons; only a sync_from_date response with a payload reloads; the
\* sync_now request has no arguments.
C10_SyncNowFrame ==
  [][ /\ (Len(inflight') < Len(inflight) /\ last'.method = SyncNowMethod =>
            /\ reloads' = reloads
            /\ doc' = doc /\ dirty' = dirty /\ buttons' = buttons)
      /\ (reloads' # reloads =>
            /\ Completes(SyncFromDateMethod, "ok")
            /\ last'.message.t = "object"
            /\ reloads' = reloads + 1)
      /\ \A i \in 1..Len(inflight') :
           inflight'[i].method = SyncNowMethod => DOMAIN inflight'[i].args = {} ]_vars

C10_Witness ==
  /\ last.method = SyncNowMethod /\ last.outcome = "ok"
  /\ dirty /\ doc.enabled = Num(0) /\ SyncNowLabel \in buttons
  /\ reloads = 0
====
